---- MODULE Spec2Model ----
(***************************************************************************)
(* Model of projectsmigrator.py: one run of merge_workspaces reads the     *)
(* GitHub project board page by page, walks the ZenHub pipelines item by   *)
(* item (sync_workspace), flushes the aggregated text (set_text) and       *)
(* prunes the items that were not seen.  A second run on the resulting     *)
(* remote state follows the first, with the same source and options.       *)
(***************************************************************************)
EXTENDS Integers, Sequences, FiniteSets, TLC

(* ------------------------------ bounds --------------------------------- *)
NKeys == 3          \* identities (owner, repo, number) in the world
MaxSrcLen == 2      \* items a pipeline lists (issues + prs) where the source varies
MaxBoard == 2       \* items on the board before the first run
MaxRuns == 2        \* consecutive runs of the program
PageSize == 2       \* items per page of gh_proj_items (items(first:100))
MaxFuse == 2        \* remote calls of one step that succeed before one fails

(* --------------------------- the small world --------------------------- *)
Keys == 1..NKeys
DraftId == NKeys + 1            \* board item id of a DRAFT_ISSUE (no content)
ItemIds == 1..DraftId           \* the item of identity k has id k
None == <<>>                    \* None (strings are tuples of code points)
NoId == 0 - 1                   \* a "fake" item of get_issue has no "id"
NoKey == 0 - 1                  \* no item (None) where a dict key is expected
DraftKey == 0                   \* issue_key(None): the dict key of a draft
UrlKey(k) == k + 100            \* (owner, repo, "n"): get_issue called with a url
BoardOwner == "org"             \* proj["owner"]["login"]

NoErr == "ok"

Range(s) == {s[i] : i \in DOMAIN s}
IndexOf(s, x) == CHOOSE i \in DOMAIN s : s[i] = x
Remove(s, x) == SelectSeq(s, LAMBDA y : y # x)
InsertAt(s, i, x) == SubSeq(s, 1, i) \o <<x>> \o SubSeq(s, i + 1, Len(s))
SeqsUpTo(S, n) == UNION {[1..m -> S] : m \in 0..n}
Distinct(s) == \A i, j \in DOMAIN s : i # j => s[i] # s[j]

VARIABLES
    cfg,        \* options and source state, fixed for both runs
    disable_remove, \* args["disable_remove"], "?" until the run first reads it
    rOrder,     \* remote: board item ids in POSITION order
    rFields,    \* remote: item id -> field name -> value, or None
    rBody,      \* remote: identity -> body of the issue / pull request
    run,        \* number of the current run
    pc,         \* place of the run in merge_workspaces
    pageBuf,    \* items: the nodes read so far (list), ids in read order
    itemKeys,   \* items: the dict's keys in insertion order
    items,      \* items: dict key -> local item object
    boards,     \* the board caches: "real" (line 111) and "default" (line 501)
    seen,       \* seen: keys marked seen in this run
    last,       \* last: status id -> id of the last item processed, or NoId
    lastFirst,  \* last: the key inserted first (next(iter(last.values())))
    deps,       \* "_deps" of the content objects, by dict key
    pipe,       \* sync_workspace: index of the pipeline being merged
    idx,        \* sync_workspace: index of the next item of that pipeline
    todo,       \* prune: the items of all_items - added_items still to visit
    flushed,    \* set_text: the (key, old_body) of each body read in this run
    textSet,    \* sync_workspace: the local "text" is bound
    calls,      \* log of the remote mutation calls that were issued
    err         \* the exception that ended the run, or NoErr

vars == <<cfg, disable_remove, rOrder, rFields, rBody, run, pc, pageBuf, itemKeys, items,
          boards, seen, last, lastFirst, deps, pipe, idx, todo, flushed, textSet, calls,
          err>>

(* -------------------------- fields of the board ------------------------ *)
\* gh_get_Fields: the single-select fields and their options, in board order
\* Strings are tuples of code points: "Todo", "Done", "S1", "S2", "L", "M", "S"
Todo == <<84, 111, 100, 111>>
Done == <<68, 111, 110, 101>>
S1 == <<83, 49>>
S2 == <<83, 50>>
StatusField ==
    [name |-> "Status", sel |-> TRUE,
     options |-> <<[id |-> S1, name |-> Todo], [id |-> S2, name |-> Done]>>]
SizeField ==
    [name |-> "Size", sel |-> TRUE,
     options |-> <<[id |-> <<90, 49>>, name |-> <<76>>],
                   [id |-> <<90, 50>>, name |-> <<77>>],
                   [id |-> <<90, 51>>, name |-> <<83>>]>>]
\* "Normal", "High Priority": the names of the ZenHub priorities and of the
\* options of the board's Priority field, which the board lists in one order
\* or the other; "high" and "normal" are priorities of source items
Normal == <<78, 111, 114, 109, 97, 108>>
HighPriority == <<72, 105, 103, 104, 32, 80, 114, 105, 111, 114, 105, 116, 121>>
high == <<104, 105, 103, 104>>
normal == <<110, 111, 114, 109, 97, 108>>
P1 == <<80, 49>>
P2 == <<80, 50>>
PriorityOptions == <<[id |-> P1, name |-> Normal], [id |-> P2, name |-> HighPriority]>>
PriorityField(first) ==
    [name |-> "Priority", sel |-> TRUE,
     options |-> <<PriorityOptions[first], PriorityOptions[3 - first]>>]
\* an iteration field has no options
IterationField == [name |-> "Iteration", sel |-> FALSE, options |-> <<>>]
PositionField == [name |-> "Position", sel |-> FALSE, options |-> <<>>]
LinkedPRField == [name |-> "Linked pull requests", sel |-> FALSE, options |-> <<>>]
TEXT == [name |-> "Text", sel |-> FALSE, options |-> <<>>]
NoField == [name |-> "", sel |-> FALSE, options |-> <<>>]
Statuses == {StatusField.options[i].id : i \in DOMAIN StatusField.options}
FieldNames == {"Status", "Size", "Priority", "Iteration"}
OptionIds(field) == {field.options[i].id : i \in DOMAIN field.options}
OptionNames(field) == [i \in DOMAIN field.options |-> field.options[i].name]

(* ------------------------------ the world ------------------------------ *)
\* The state one step of the run works on: the remote board and the run's
\* tables.  fuse is the number of remote mutation calls that still succeed
\* in this step (NoId: all of them); the call after them times out.
DictKeys == {DraftKey} \cup Keys \cup {UrlKey(k) : k \in Keys}
NoFv == [f \in FieldNames |-> None]
NoItem == [id |-> NoId, brd |-> "none", col |-> None, fv |-> NoFv]
NoDeps == [has |-> FALSE, secs |-> <<>>]
EmptyBoard == [s \in Statuses \cup {None} |-> <<>>]

Raise(W, e) == IF W.err # NoErr THEN W ELSE [W EXCEPT !.err = e]

\* gh_query(mutation): c is the call, W2 the world after its effect
Call(W, c, W2) ==
    IF W.err # NoErr THEN W
    ELSE IF W.fuse = 0 THEN [W EXCEPT !.err = "TransportError"]
    ELSE [W2 EXCEPT !.calls = Append(@, [c EXCEPT !.run = W.run]),
                    !.fuse = IF @ > 0 THEN @ - 1 ELSE @]

Mut(op, id, field, val, after) ==
    [run |-> 0, op |-> op, id |-> id, field |-> field, val |-> val, after |-> after]

\* The remote board, as the cache takes it to behave: an added item goes to
\* the end, a Status write moves the item to the tail of its column, and
\* updateProjectV2ItemPosition puts the item right after afterId (or on top).
gh_add_item(W, k) ==
    Call(W, Mut("add", k, "", None, NoId),
         [W EXCEPT !.order = Append(@, k), !.rfields[k] = NoFv])

gh_set_option(W, id, fname, value) ==
    Call(W, Mut("set", id, fname, value, NoId),
         [W EXCEPT !.rfields[id][fname] = value,
                   !.order = IF fname = "Status" THEN Append(Remove(@, id), id) ELSE @])

gh_del_value(W, id, fname) ==
    Call(W, Mut("clear", id, fname, None, NoId),
         [W EXCEPT !.rfields[id][fname] = None,
                   !.order = IF fname = "Status" THEN Append(Remove(@, id), id) ELSE @])

gh_set_order(W, id, after) ==
    Call(W, Mut("pos", id, "", None, after),
         [W EXCEPT !.order =
             IF after = NoId THEN <<id>> \o Remove(@, id)
             ELSE LET rest == Remove(@, id)
                  IN  IF after \in Range(rest)
                      THEN InsertAt(rest, IndexOf(rest, after), id)
                      ELSE @])

gh_del_item(W, id) ==
    Call(W, Mut("delete", id, "", None, NoId), [W EXCEPT !.order = Remove(@, id)])

\* The column of the remote board for one status, in POSITION order
RemoteColumn(order, rfields, st) == SelectSeq(order, LAMBDA i : rfields[i]["Status"] = st)

(* ------------------------- board position cache ------------------------ *)
\* field_value(item, field) on a local item: the value read with the item
field_value(W, key, fname) == W.items[key].fv[fname]

\* board[None] exists: only cache_after_new at line 114 makes that column, in
\* the board of lines 110-114, for an item that was read with no Status
HasNoneColumn(W, brd) ==
    /\ brd = "real"
    /\ \E k \in Range(W.itemKeys) :
          W.items[k].id \in Range(pageBuf) /\ W.items[k].fv["Status"] = None

\* The exception cache_is_after / cache_after raise for (item, after), or NoErr
CacheError(W, key, after) ==
    LET item == W.items[key]
    IN  IF item.brd = "none" THEN "KeyError"
        ELSE IF item.col = None /\ ~HasNoneColumn(W, item.brd) THEN "KeyError"
        ELSE LET col == W.boards[item.brd][item.col]
             IN  IF item.id \notin Range(col) THEN "ValueError"
                 ELSE IF after # NoId /\ after \notin Range(col) THEN "StopIteration"
                 ELSE NoErr

cache_is_after(W, key, after) ==
    LET item == W.items[key]
        col == W.boards[item.brd][item.col]
        i == IndexOf(col, item.id)
        i_after == IF after # NoId THEN IndexOf(col, after) ELSE 0
    IN  i = i_after + 1

cache_init_board(W, key, id, other) ==
    IF other # NoKey /\ W.items[other].brd = "none" THEN Raise(W, "KeyError")
    ELSE [W EXCEPT !.items[key] =
            [id |-> id,
             brd |-> IF other # NoKey THEN W.items[other].brd ELSE "default",
             col |-> None,
             fv |-> NoFv]]

cache_after(W, key, after) ==
    LET item == W.items[key]
        col == Remove(W.boards[item.brd][item.col], item.id)
        i_after == IF after # NoId THEN IndexOf(col, after) ELSE 0
    IN  IF after # NoId /\ after \notin Range(col) THEN Raise(W, "StopIteration")
        ELSE [W EXCEPT !.boards[item.brd][item.col] = InsertAt(col, i_after, item.id)]

cache_after_new(W, key, new_status) ==
    LET item == W.items[key]
        W1 == [W EXCEPT !.boards[item.brd][item.col] = Remove(@, item.id)]
    IN  IF item.brd = "none" THEN Raise(W, "KeyError")
        ELSE [W1 EXCEPT !.boards[item.brd][new_status] = Append(@, item.id),
                        !.items[key].col = new_status]

(* ---------------------------- value converter -------------------------- *)
\* difflib.SequenceMatcher(a, b): the longest common block of a[alo..ahi-1]
\* and b[blo..bhi-1], the earliest in a and then in b among the longest
RECURSIVE CommonPrefix(_, _, _, _, _, _)
CommonPrefix(a, b, i, j, ahi, bhi) ==
    IF i < ahi /\ j < bhi /\ a[i] = b[j]
    THEN 1 + CommonPrefix(a, b, i + 1, j + 1, ahi, bhi)
    ELSE 0

\* the block at start p is at least as good as the one at q: longer, or as
\* long and earlier in a, or as long, at the same place in a and earlier in b
BetterBlock(size, p, q) ==
    \/ size[p] > size[q]
    \/ size[p] = size[q] /\ p[1] < q[1]
    \/ size[p] = size[q] /\ p[1] = q[1] /\ p[2] <= q[2]

BlockAt(size, best) == <<best[1], best[2], size[best]>>

BestBlock(P, size) ==
    BlockAt(size, CHOOSE p \in P : \A q \in P : BetterBlock(size, p, q))

LongestIn(a, b, alo, ahi, blo, bhi, P) ==
    IF P = {} THEN <<alo, blo, 0>>
    ELSE BestBlock(P, [p \in P |-> CommonPrefix(a, b, p[1], p[2], ahi, bhi)])

find_longest_match(a, b, alo, ahi, blo, bhi) ==
    LongestIn(a, b, alo, ahi, blo, bhi, (alo..(ahi - 1)) \X (blo..(bhi - 1)))

\* get_matching_blocks: the number of matched elements, the block m and the
\* blocks matched to the left and to the right of it
RECURSIVE Matched(_, _, _, _, _, _)
MatchedAround(a, b, alo, ahi, blo, bhi, m) ==
    IF m[3] = 0 THEN 0
    ELSE m[3] + Matched(a, b, alo, m[1], blo, m[2])
              + Matched(a, b, m[1] + m[3], ahi, m[2] + m[3], bhi)

Matched(a, b, alo, ahi, blo, bhi) ==
    MatchedAround(a, b, alo, ahi, blo, bhi, find_longest_match(a, b, alo, ahi, blo, bhi))

\* ratio() = 2.0 * matches / (len(a) + len(b)), as the pair <<num, den>>
Ratio(a, b) ==
    IF Len(a) + Len(b) = 0 THEN <<1, 1>>
    ELSE <<2 * Matched(a, b, 1, Len(a) + 1, 1, Len(b) + 1), Len(a) + Len(b)>>

\* Python's order on strings (by code point, a prefix first)
RECURSIVE StrLess(_, _)
StrLess(x, y) ==
    IF y = <<>> THEN FALSE
    ELSE IF x = <<>> THEN TRUE
    ELSE IF Head(x) # Head(y) THEN Head(x) < Head(y)
    ELSE StrLess(Tail(x), Tail(y))

\* difflib.get_close_matches(word, names, 1, 0): the greatest (score, name).
\* A name equal to the word scores 1.0 and every other name less, so it is
\* the result without the scores being computed.
LessScored(score, x, y) ==
    \/ score[x][1] * score[y][2] < score[y][1] * score[x][2]
    \/ /\ score[x][1] * score[y][2] = score[y][1] * score[x][2]
       /\ StrLess(x, y)

Greatest(S, score) == CHOOSE x \in S : \A y \in S : y # x => LessScored(score, y, x)

\* the first name is taken, whatever the scores
FirstName(word, names) == names[1]

get_close_matches(word, names) ==
    IF word \in Range(names) THEN word
    ELSE Greatest(Range(names), [x \in Range(names) |-> Ratio(x, word)])

\* dct.get(res, None): the index of the option named res, 0 for None
dict_get(names, res) == IF res \in Range(names) THEN IndexOf(names, res) ELSE 0

\* a fuzzy_get that takes the closest key whatever "closest" is
AlwaysClosest(names, key, closest) ==
    IF names = <<>> THEN 0 - 1 ELSE dict_get(names, get_close_matches(key, names))

\* fuzzy_get({opt["name"]: opt}, key, closest): the index of the option, 0 for
\* None and -1 where next(iter([])) raises StopIteration
fuzzy_get(names, key, closest) ==
    IF closest /\ names = <<>> THEN 0 - 1
    ELSE dict_get(names, IF closest THEN get_close_matches(key, names) ELSE key)

\* Python 3 round(): to the nearest integer, a tie to the even one
round(num, den) ==
    LET q == num \div den
        r == num % den
    IN  IF 2 * r < den THEN q
        ELSE IF 2 * r > den THEN q + 1
        ELSE IF q % 2 = 0 THEN q ELSE q + 1

\* set_field, lines 530-539: the destination value for (value, match, options),
\* as <<exception, value>>
\* line 535: new_opt[i]["id"], i counted from 0
option_at(new_opt, i) ==
    IF i >= Len(new_opt) THEN <<"IndexError", None>> ELSE <<NoErr, new_opt[i + 1].id>>

\* lines 538-539: the id of the option fuzzy_get found (j), or None
option_of(field, j) ==
    IF j < 0 THEN <<"StopIteration", None>>
    ELSE IF j = 0 THEN <<NoErr, None>>
    ELSE <<NoErr, field.options[j].id>>

convert(field, value, match, options) ==
    IF match = "scale" /\ field.sel /\ options # <<>>
    THEN IF value \notin Range(options) THEN <<"ValueError", None>>
         ELSE option_at(field.options,
                        round((IndexOf(options, value) - 1) * Len(field.options),
                              Len(options)))
    ELSE IF field.sel /\ value \notin OptionIds(field)
    THEN option_of(field, fuzzy_get(OptionNames(field), value, match = "closest"))
    ELSE <<NoErr, value>>

\* lines 557-559: the cache follows a Status that was set
track_status(W1, key, field, new) ==
    IF W1.err # NoErr \/ field.name # "Status" THEN W1
    ELSE cache_after_new(W1, key, new)

\* lines 545-561: the converted value cv = <<exception, value>> is written
write_field(W, key, field, cv) ==
    IF W.err # NoErr THEN W
    ELSE IF cv[1] # NoErr THEN Raise(W, cv[1])
    ELSE IF W.items[key].id = NoId THEN Raise(W, "KeyError")
    ELSE IF field_value(W, key, field.name) = cv[2] THEN W
    ELSE IF cv[2] = None THEN gh_del_value(W, W.items[key].id, field.name)
    ELSE track_status(gh_set_option(W, W.items[key].id, field.name, cv[2]),
                      key, field, cv[2])

set_field(W, key, field, value, match, options) ==
    write_field(W, key, field, convert(field, value, match, options))

(* ---------------------------- text aggregator -------------------------- *)
\* The identity a dict key names, and the owner of its repository
Ident(dkey) == IF dkey > NKeys THEN dkey - 100 ELSE dkey
Owner(k) == IF cfg.kind[k] = "foreign" THEN "other" ELSE BoardOwner

\* same_org(gh_issue, proj): proj has an "owner"
same_org_proj(k) == Owner(k) = BoardOwner
\* same_org(gh_issue, sub): the first four parts of the two urls
same_org_url(k, sub) == Owner(k) = Owner(sub)

\* add_text(gh_issue, name, text, proj) on the content object of dict key dkey
add_text(W, dkey, name, text) ==
    LET W1 == [W EXCEPT !.deps[dkey].has = TRUE]
        secs == W1.deps[dkey].secs
        known == \E i \in DOMAIN secs : secs[i].title = name
        at == IF known THEN CHOOSE i \in DOMAIN secs : secs[i].title = name
              ELSE Len(secs) + 1
        secs1 == IF known THEN secs ELSE Append(secs, [title |-> name, lines |-> <<>>])
    IN  IF W.err # NoErr THEN W
        ELSE IF ~same_org_proj(Ident(dkey)) THEN W1
        ELSE IF text \in Range(secs1[at].lines) THEN [W1 EXCEPT !.deps[dkey].secs = secs1]
        ELSE [W1 EXCEPT !.deps[dkey].secs = [secs1 EXCEPT ![at].lines = Append(@, text)]]

\* A body is a sequence of pieces: user text "t", the heading marker
\* "\r\n# Dependencies\r\n" (MARK), the start of another top-level heading
\* written with "\r\n# " (CRH) or with "\n# " alone (LFH), one character
\* ("c", and "nl" for a newline), and the pieces set_text renders.
Tok(tag) == <<tag, <<>>>>
MARK == Tok("MARK")
HasLfHash(tok) == tok[1] \in {"MARK", "CRH", "LFH"}      \* "\n# " in piece
HasCrLfHash(tok) == tok[1] \in {"MARK", "CRH"}           \* "\r\n# " in piece
LastChar(tok) == IF tok[1] \in {"MARK", "nl"} THEN Tok("nl") ELSE Tok("c")

FirstWhere(s, P(_)) ==
    IF \E i \in DOMAIN s : P(s[i])
    THEN CHOOSE i \in DOMAIN s : P(s[i]) /\ \A j \in 1..(i - 1) : ~P(s[j])
    ELSE 0

RECURSIVE RenderLines(_)
RenderLines(lines) ==
    IF lines = <<>> THEN <<>>
    ELSE <<<<"line:" \o Head(lines)[1], Head(lines)[2]>>>> \o RenderLines(Tail(lines))

RECURSIVE RenderSecs(_)
RenderSecs(secs) ==
    IF secs = <<>> THEN <<>>
    ELSE (IF Head(secs).lines # <<>>
          THEN <<<<"title:" \o Head(secs).title, <<>>>>>> ELSE <<>>)
         \o RenderLines(Head(secs).lines) \o RenderSecs(Tail(secs))

\* set_text, lines 628-642: the new body for old_body and the "_deps" sections
new_body(old_body, secs) ==
    LET m == FirstWhere(old_body, LAMBDA t : t = MARK)
        body == IF m = 0 THEN old_body ELSE SubSeq(old_body, 1, m - 1)
        rest0 == IF m = 0 THEN <<>> ELSE SubSeq(old_body, m + 1, Len(old_body))
        f == FirstWhere(rest0, HasCrLfHash)
        rest == IF \E i \in DOMAIN rest0 : HasLfHash(rest0[i])
                THEN IF f = 0 THEN <<LastChar(rest0[Len(rest0)])>>
                     ELSE SubSeq(rest0, f, Len(rest0))
                ELSE <<>>
        text0 == RenderSecs(secs)
        text == IF text0 # <<>> THEN <<MARK>> \o text0 ELSE <<>>
    IN  body \o text \o rest

gh_set_body(W, k, body) ==
    Call(W, Mut("body", k, "", None, NoId), [W EXCEPT !.body[k] = body])

\* set_text(gh_issue, gh_query) for the content object of dict key dkey, whose
\* body on the remote side is old_body
\* lines 644-652: W0 is the world in which old_body was read
write_body(W0, k, old_body, nb) ==
    IF old_body # nb THEN gh_set_body(W0, k, nb) ELSE W0

set_text(W, dkey, old_body) ==
    IF W.err # NoErr \/ ~W.deps[dkey].has THEN W
    ELSE write_body([W EXCEPT !.body[Ident(dkey)] = old_body], Ident(dkey), old_body,
                    new_body(old_body, W.deps[dkey].secs))

(* ------------------------- field mapping resolver ---------------------- *)
\* A mapping "SRC:DST[:CNV]", split at the colons
Map(src, tgt, conv) == [src |-> src, tgt |-> tgt, conv |-> conv]
default_mapping ==
    << Map("Estimate", "Size", "Scale"), Map("Priority", "Priority", ""),
       Map("Pipeline", "Status", ""), Map("Linked Issues", "Text", ""),
       Map("Epic", "Text", ""), Map("Blocked By", "Text", ""),
       Map("Sprint", "Iteration", ""), Map("Position", "Position", "") >>

\* all_fields.get(tgt): the fields of the board, "Position" and "Text"
all_fields(board_fields, tgt) ==
    IF tgt = "Position" THEN PositionField
    ELSE IF tgt = "Text" THEN TEXT
    ELSE IF \E f \in board_fields : f.name = tgt
         THEN CHOOSE f \in board_fields : f.name = tgt
    ELSE NoField

\* tfields.setdefault(src, []).append((all_fields.get(tgt), conv))
RECURSIVE Layer(_, _, _)
Layer(tfields, fmapping, board_fields) ==
    IF fmapping = <<>> THEN tfields
    ELSE LET m == Head(fmapping)
             d == [field |-> all_fields(board_fields, m.tgt), conv |-> m.conv]
             at == FirstWhere(tfields, LAMBDA r : r.src = m.src)
         IN  Layer(IF at = 0 THEN Append(tfields, [src |-> m.src, dsts |-> <<d>>])
                   ELSE [tfields EXCEPT ![at].dsts = Append(@, d)],
                   Tail(fmapping), board_fields)

\* the destinations of a known key are extended, not replaced
RECURSIVE Extend(_, _)
Extend(fields, tfields) ==
    IF tfields = <<>> THEN fields
    ELSE LET r == Head(tfields)
             at == FirstWhere(fields, LAMBDA x : x.src = r.src)
         IN  Extend(IF at = 0 THEN Append(fields, r)
                    ELSE [fields EXCEPT ![at].dsts = @ \o r.dsts],
                    Tail(tfields))

\* fields.update(tfields): a known key keeps its place, a new one goes last
RECURSIVE Update(_, _)
Update(fields, tfields) ==
    IF tfields = <<>> THEN fields
    ELSE LET r == Head(tfields)
             at == FirstWhere(fields, LAMBDA x : x.src = r.src)
         IN  Update(IF at = 0 THEN Append(fields, r) ELSE [fields EXCEPT ![at] = r],
                    Tail(tfields))

\* merge_workspaces, lines 135-143
resolve_fields(field, board_fields) ==
    Update(Update(<<>>, Layer(<<>>, default_mapping, board_fields)),
           Layer(<<>>, field, board_fields))

\* line 284: the conversion kind
closest_of(conv) ==
    IF conv \in {"Closest", "closest"} THEN "closest"
    ELSE IF conv \in {"Exact", "exact"} THEN "exact"
    ELSE IF conv \in {"Scale", "scale"} THEN "scale"
    ELSE "closest"

(* ------------------------- workspaces and excludes --------------------- *)
\* fnmatch.fnmatch(name, pat) for patterns of literal characters, "*" and "?"
RECURSIVE fnmatch(_, _)
fnmatch(name, pat) ==
    IF pat = <<>> THEN name = <<>>
    ELSE IF Head(pat) = 42
    THEN fnmatch(name, Tail(pat)) \/ (name # <<>> /\ fnmatch(Tail(name), pat))
    ELSE /\ name # <<>>
         /\ Head(pat) = 63 \/ Head(pat) = Head(name)
         /\ fnmatch(Tail(name), Tail(pat))

\* any(fnmatch.fnmatch(name, pat) for pat in exclude.get(f, []))
excluded(f, name) ==
    \E i \in DOMAIN cfg.exclude : cfg.exclude[i].f = f /\ fnmatch(name, cfg.exclude[i].pat)

\* lines 127-133: the names to merge, all workspaces if none is asked for
workspace ==
    SelectSeq(IF cfg.workspace = <<>> THEN cfg.workspaces ELSE cfg.workspace,
              LAMBDA w : ~excluded("Workspace", w))

\* lines 214-226: the pipelines of workspace ws that are not excluded
pipelines(ws) ==
    SelectSeq(cfg.source, LAMBDA p : p.ws = ws /\ ~excluded("Pipeline", p.name))

\* [p["name"] for p in ws["pipelines"]]
pipeline_names(ws) ==
    LET ps == SelectSeq(cfg.source, LAMBDA p : p.ws = ws)
    IN  [i \in DOMAIN ps |-> ps[i].name]

\* lines 158-160: the pipelines the run merges, in order: those of
\* fuzzy_get(workspaces, name) for each name
RECURSIVE merged_pipelines(_)
merged_pipelines(names) ==
    IF names = <<>> THEN <<>>
    ELSE pipelines(fuzzy_get(cfg.workspaces, Head(names), TRUE))
         \o merged_pipelines(Tail(names))

Selected == merged_pipelines(workspace)

(* -------------------------------- zh_value ----------------------------- *)
IsPR(k) == cfg.kind[k] = "pr"
\* archivedAt is never looked at: lines 243-249 left out
NeverArchived(k) == FALSE
Archived(k) == cfg.kind[k] = "archived"
story_points == <<40, 21, 13, 8, 5, 3, 2, 1>>

\* sorted(story_points + [value], reverse=True)
InsertDesc(scale, value) ==
    LET at == FirstWhere(scale, LAMBDA x : x < value)
    IN  IF at = 0 THEN Append(scale, value) ELSE InsertAt(scale, at - 1, value)

\* gh_issue["title"]: "#k"
Title(k) == <<35, 48 + k>>

\* zh_value(...) returns a list for these (issue, name)
zh_is_list(k, name) ==
    \/ name = "Linked Issues" /\ IsPR(k)
    \/ name = "Blocked By" /\ cfg.blocked[k] # <<>>

\* the list zh_value returns: the connections of a pull request, or the
\* issues that block an issue
zh_list(k, name) ==
    IF name = "Linked Issues" /\ IsPR(k) THEN cfg.conn[k]
    ELSE IF name = "Blocked By" THEN cfg.blocked[k]
    ELSE <<>>

\* the scalar zh_value returns, as <<value, options>>
zh_value(k, name, pipeline) ==
    IF name = "Pipeline"
    THEN <<pipeline, pipeline_names(Selected[pipe].ws)>>
    ELSE IF name = "Estimate"
    THEN LET value == cfg.estimate[k]
         IN  <<value, IF value # 0 /\ value \notin Range(story_points)
                      THEN InsertDesc(story_points, value) ELSE story_points>>
    ELSE IF name = "Workspace" THEN <<cfg.workspaces[Selected[pipe].ws], <<>>>>
    ELSE IF name = "Priority" THEN <<cfg.priority[k], <<Normal, HighPriority>>>>
    ELSE IF name = "Sprints" THEN <<cfg.sprints[k][Len(cfg.sprints[k])], <<>>>>
    ELSE <<None, <<>>>>

\* line 420: nodes[-1] of an issue that is in no sprint
zh_error(k, name) ==
    IF name = "Sprints" /\ cfg.sprints[k] = <<>> THEN "IndexError" ELSE NoErr

\* "not value" for what zh_value returned
Falsy(name, value) == IF name = "Estimate" THEN value = 0 ELSE value = None

(* ------------------------------ sync_workspace ------------------------- *)
\* get_issue(gh_query, items, ...), lines 375-391: a content that is not in
\* items is fetched and kept under its key in a fake item
get_issue(W, dkey) ==
    IF W.err # NoErr \/ dkey \in Range(W.itemKeys) THEN W
    ELSE [W EXCEPT !.itemKeys = Append(@, dkey), !.items[dkey] = NoItem]

\* update_linked_prs, lines 570-592: the first sub that is neither linked
\* already nor of another organisation reaches line 584, where the names
\* gh_query and items are not defined
update_linked_prs(W, key, value) ==
    LET k == Ident(key)
        stops(sub) == sub \notin cfg.prlinks[k] /\ same_org_url(k, sub)
    IN  IF W.err # NoErr \/ value = <<>> THEN W
        ELSE IF W.items[key].id = NoId THEN Raise(W, "KeyError")
        ELSE IF \E i \in DOMAIN value : stops(value[i]) THEN Raise(W, "NameError")
        ELSE W

\* lines 321-327: the title of the issue is set on the first linked item,
\* which is a content and has no field values
set_on_content(W1, cv) ==
    IF cv[1] # NoErr THEN Raise(W1, cv[1]) ELSE Raise(W1, "KeyError")

propagate(W, field, title, match, value) ==
    IF W.err # NoErr \/ value = <<>> THEN W
    ELSE set_on_content(get_issue(W, UrlKey(value[1])), convert(field, title, match, <<>>))

\* lines 283-339: one (src, field, conv) for the issue of key, item being
\* the local "item" (NoKey for {}), status the option of the pipeline
field_step(W, key, item, status, pipeline, src, d) ==
    LET field == d.field
        closest == closest_of(d.conv)
        lastKey == W.last[status]
        zv == zh_value(Ident(key), src, pipeline)
        isList == src # "Position" /\ zh_is_list(Ident(key), src)
        list == zh_list(Ident(key), src)
        after == IF src = "Position"
                 THEN (IF lastKey # NoKey THEN W.items[lastKey].id ELSE NoId)
                 ELSE NoId
        novalue == IF src = "Position" THEN lastKey = NoKey
                   ELSE IF isList THEN list = <<>>
                   ELSE Falsy(src, zv[1])
    IN  IF W.err # NoErr THEN W
        ELSE IF src = "Position" /\ lastKey # NoKey /\ W.items[lastKey].id = NoId
        THEN Raise(W, "KeyError")
        ELSE IF src # "Position" /\ zh_error(Ident(key), src) # NoErr
        THEN Raise(W, zh_error(Ident(key), src))
        ELSE IF item # NoKey /\ field.name = "Position"
        THEN IF CacheError(W, item, NoId) # NoErr
             THEN Raise(W, CacheError(W, item, NoId))
             ELSE IF src # "Position" /\ ~novalue THEN Raise(W, "StopIteration")
             ELSE IF CacheError(W, item, after) # NoErr
             THEN Raise(W, CacheError(W, item, after))
             ELSE IF cache_is_after(W, item, after) THEN W
             ELSE LET W1 == gh_set_order(W, W.items[item].id, after)
                  IN  IF W1.err # NoErr THEN W1 ELSE cache_after(W1, item, after)
        ELSE IF novalue \/ field = NoField THEN W
        ELSE IF isList
        THEN IF field = TEXT
             THEN add_text([W EXCEPT !.text = TRUE], key, src,
                           <<IF src = "Linked Issues" THEN "chkfix" ELSE "chk", list>>)
             ELSE IF field.name = "Linked pull requests"
             THEN IF item = NoKey THEN Raise(W, "KeyError")
                  ELSE update_linked_prs(W, item, list)
             ELSE propagate(W, field, Title(Ident(key)), closest, list)
        ELSE IF field = TEXT
        THEN IF W.text THEN W ELSE Raise(W, "UnboundLocalError")
        ELSE IF item = NoKey THEN W
        ELSE IF src = "Position" THEN set_field(W, item, field, <<after>>, closest, <<>>)
        ELSE set_field(W, item, field, zv[1], closest, zv[2])

\* the flat list of (src, destination) of the mapping table, in table order
RECURSIVE Flat(_)
Flat(fields) ==
    IF fields = <<>> THEN <<>>
    ELSE [i \in DOMAIN Head(fields).dsts |->
             [src |-> Head(fields).src, d |-> Head(fields).dsts[i]]] \o Flat(Tail(fields))

RECURSIVE field_loop(_, _, _, _, _, _)
field_loop(W, key, item, status, pipeline, rows) ==
    IF rows = <<>> \/ W.err # NoErr THEN W
    ELSE field_loop(field_step(W, key, item, status, pipeline, Head(rows).src, Head(rows).d),
                    key, item, status, pipeline, Tail(rows))

\* line 230: the option the pipeline is merged into, an index into the
\* options of the first destination of "Pipeline" (-1: StopIteration)
PipelineField ==
    LET at == FirstWhere(cfg.fields, LAMBDA r : r.src = "Pipeline")
    IN  cfg.fields[at].dsts[1].field
pipeline_status(name) == fuzzy_get(OptionNames(PipelineField), name, TRUE)
StatusOf(name) == PipelineField.options[pipeline_status(name)].id

\* only the items read from the board count as known: line 265 forgotten
InItemsFromBoard(W, key) == W.items[key].brd = "real"

\* line 237: key in items
in_items(W, key) == key \in Range(W.itemKeys)

\* no pull request counts as linked: the branch of lines 250-259 left out
NeverLinked(key) == FALSE

\* lines 232-343: one issue of the pipeline
\* line 248: the issue is a pull request that is linked to issues
linked(key) == zh_list(key, "Linked Issues") # <<>>

\* lines 265-269: the item the board returned for the issue is kept, with the
\* board of the first value of last
init_added(add, key) ==
    IF add.err # NoErr THEN add
    ELSE cache_init_board(add, key, key,
                          IF add.lastFirst = None THEN NoKey ELSE add.last[add.lastFirst])

\* lines 259-269: W1 is the world after get_issue
add_missing(W1, key, inItems) ==
    IF linked(key) \/ inItems THEN W1 ELSE init_added(gh_add_item(W1, key), key)

\* lines 340-341
set_last(W4, key, status) ==
    IF W4.err # NoErr THEN W4
    ELSE [W4 EXCEPT !.last[status] = key,
                    !.lastFirst = IF @ = None THEN status ELSE @]

\* lines 277-341 with no check of seen at lines 270-272
ResyncFields(W2, key, status, pipeline) ==
    IF W2.err # NoErr THEN W2
    ELSE IF linked(key)
    THEN field_loop(W2, key, NoKey, status, pipeline, Flat(cfg.fields))
    ELSE set_last(field_loop([W2 EXCEPT !.seen = @ \cup {key}], key, key, status,
                             pipeline, Flat(cfg.fields)),
                  key, status)

\* lines 270-341: W2 is the world in which the item is on the board
sync_fields(W2, key, status, pipeline) ==
    IF W2.err # NoErr \/ key \in W2.seen THEN W2
    ELSE IF linked(key)
    THEN field_loop(W2, key, NoKey, status, pipeline, Flat(cfg.fields))
    ELSE set_last(field_loop([W2 EXCEPT !.seen = @ \cup {key}], key, key, status,
                             pipeline, Flat(cfg.fields)),
                  key, status)

sync_item(W, key, status, pipeline) ==
    IF Archived(key) THEN get_issue(W, key)
    ELSE sync_fields(add_missing(get_issue(W, key), key, in_items(W, key)),
                     key, status, pipeline)

(* -------------------------------- actions ------------------------------ *)
World(fuse) ==
    [run |-> run, fuse |-> fuse, order |-> rOrder, rfields |-> rFields, body |-> rBody,
     itemKeys |-> itemKeys, items |-> items, boards |-> boards, seen |-> seen,
     last |-> last, lastFirst |-> lastFirst, deps |-> deps, text |-> textSet,
     calls |-> calls, err |-> NoErr]

Store(W) ==
    /\ rOrder' = W.order /\ rFields' = W.rfields /\ rBody' = W.body
    /\ itemKeys' = W.itemKeys /\ items' = W.items /\ boards' = W.boards
    /\ seen' = W.seen /\ last' = W.last /\ lastFirst' = W.lastFirst
    /\ deps' = W.deps /\ textSet' = W.text /\ calls' = W.calls /\ err' = W.err

Fuses == {NoId} \cup 0..MaxFuse
Unread == <<Tok("?")>>
Bodies ==
    { <<>>, <<Tok("t")>>, <<Tok("t"), MARK, Tok("t")>>,
      <<Tok("t"), MARK, Tok("t"), Tok("CRH"), Tok("t")>>,
      <<Tok("t"), MARK, Tok("LFH"), Tok("t")>> }

issue_key(id) == IF id \in Keys THEN id ELSE DraftKey

\* a page that always reports hasNextPage false
NoNextPage(m) == FALSE

\* line 105: res["pageInfo"]["hasNextPage"] of the page that ends at item m
hasNextPage(m) == m < Len(rOrder)

\* lines 99-107: one page of the board; a failed read ends the run
ReadPage ==
    /\ pc = "read"
    /\ Len(pageBuf) < Len(rOrder) \/ pageBuf = <<>>
    /\ LET n == Len(pageBuf)
           m == IF n + PageSize < Len(rOrder) THEN n + PageSize ELSE Len(rOrder)
       IN  /\ pageBuf' = pageBuf \o SubSeq(rOrder, n + 1, m)
           /\ pc' = IF hasNextPage(m) THEN "read" ELSE "board"
    /\ UNCHANGED <<cfg, flushed, disable_remove, rOrder, rFields, rBody, run, itemKeys, items, boards, seen,
                   last, lastFirst, deps, pipe, idx, todo, textSet, calls, err>>

ReadFails ==
    /\ pc = "read"
    /\ pc' = "crashed"
    /\ err' = "TransportError"
    /\ UNCHANGED <<cfg, flushed, disable_remove, rOrder, rFields, rBody, run, pageBuf, itemKeys, items, boards,
                   seen, last, lastFirst, deps, pipe, idx, todo, textSet, calls>>

\* dict keys of a list of board items, each once, in the order of the list
RECURSIVE KeysOf(_)
KeysOf(ids) ==
    IF ids = <<>> THEN <<>>
    ELSE LET front == KeysOf(SubSeq(ids, 1, Len(ids) - 1))
             key == issue_key(ids[Len(ids)])
         IN  IF key \in Range(front) THEN front ELSE Append(front, key)

\* lines 110-116: the board cache and the items by key (a later item of the
\* same key replaces an earlier one)
InitBoard ==
    /\ pc = "board"
    /\ boards' = [boards EXCEPT !["real"] =
          [st \in Statuses \cup {None} |->
              SelectSeq(pageBuf, LAMBDA i : rFields[i]["Status"] = st)]]
    /\ itemKeys' = KeysOf(pageBuf)
    /\ items' = [key \in DictKeys |->
          IF \E n \in DOMAIN pageBuf : issue_key(pageBuf[n]) = key
          THEN LET n == CHOOSE n \in DOMAIN pageBuf :
                          /\ issue_key(pageBuf[n]) = key
                          /\ \A j \in (n + 1)..Len(pageBuf) : issue_key(pageBuf[j]) # key
                   id == pageBuf[n]
               IN  [id |-> id, brd |-> "real", col |-> rFields[id]["Status"],
                    fv |-> rFields[id]]
          ELSE NoItem]
    /\ pc' = "sync"
    /\ pipe' = 1
    /\ idx' = 0
    /\ UNCHANGED <<cfg, flushed, disable_remove, rOrder, rFields, rBody, run, pageBuf, seen, last, lastFirst,
                   deps, todo, textSet, calls, err>>

\* lines 212-231: the next pipeline: its status option is looked up; the
\* local "text" is not bound when sync_workspace starts on a workspace
status_error(name) ==
    IF PipelineField = NoField THEN "TypeError"
    ELSE IF ~PipelineField.sel THEN "KeyError"
    ELSE IF pipeline_status(name) < 0 THEN "StopIteration"
    ELSE NoErr

StartPipeline ==
    /\ pc = "sync" /\ idx = 0 /\ pipe <= Len(Selected)
    /\ \E bad \in {status_error(Selected[pipe].name)} :
           /\ err' = bad
           /\ pc' = IF bad # NoErr THEN "crashed" ELSE "sync"
           /\ IF bad = NoErr /\ Selected[pipe].issues = <<>>
              THEN pipe' = pipe + 1 /\ idx' = 0
              ELSE pipe' = pipe /\ idx' = IF bad = NoErr THEN 1 ELSE 0
    /\ textSet' = IF pipe > 1 /\ Selected[pipe].ws = Selected[pipe - 1].ws
                  THEN textSet ELSE FALSE
    /\ UNCHANGED <<cfg, flushed, disable_remove, rOrder, rFields, rBody, run, pageBuf, itemKeys, items, boards,
                   seen, last, lastFirst, deps, todo, calls>>

\* lines 232-343: the next issue of the pipeline
SyncItem ==
    /\ pc = "sync" /\ idx > 0
    /\ \E fuse \in Fuses :
       \E W \in {sync_item(World(fuse), Selected[pipe].issues[idx],
                            StatusOf(Selected[pipe].name), Selected[pipe].name)} :
             /\ Store(W)
             /\ pc' = IF W.err # NoErr THEN "crashed" ELSE "sync"
             /\ IF W.err # NoErr THEN UNCHANGED <<pipe, idx>>
                ELSE IF idx < Len(Selected[pipe].issues)
                THEN pipe' = pipe /\ idx' = idx + 1
                ELSE pipe' = pipe + 1 /\ idx' = 0
    /\ UNCHANGED <<cfg, flushed, disable_remove, run, pageBuf, todo>>

\* line 160-163: every workspace is merged
EndSync ==
    /\ pc = "sync" /\ idx = 0 /\ pipe > Len(Selected)
    /\ pc' = "flush"
    /\ idx' = 1
    /\ UNCHANGED <<cfg, flushed, disable_remove, rOrder, rFields, rBody, run, pageBuf, itemKeys, items, boards,
                   seen, last, lastFirst, deps, pipe, todo, textSet, calls, err>>

\* a loop at lines 164-169 that starts over from the first item each time
FlushFromStart(from) ==
    LET P(i) == itemKeys[i] # DraftKey /\ deps[itemKeys[i]].has
    IN  IF \E i \in DOMAIN itemKeys : P(i)
        THEN CHOOSE i \in DOMAIN itemKeys : P(i) /\ \A j \in 1..(i - 1) : ~P(j)
        ELSE 0

\* lines 164-169: the next item whose content has "_deps"
NextFlush(from) ==
    LET P(i) == i >= from /\ itemKeys[i] # DraftKey /\ deps[itemKeys[i]].has
    IN  IF \E i \in DOMAIN itemKeys : P(i)
        THEN CHOOSE i \in DOMAIN itemKeys : P(i) /\ \A j \in 1..(i - 1) : ~P(j)
        ELSE 0

Flush ==
    /\ pc = "flush" /\ NextFlush(idx) # 0
    /\ \E fuse \in {NoId, 0}, b \in Bodies, dkey \in {itemKeys[NextFlush(idx)]} :
       \E old \in {IF rBody[Ident(dkey)] = Unread THEN b ELSE rBody[Ident(dkey)]} :
       \E W \in {set_text(World(fuse), dkey, old)} :
             /\ Store(W)
             /\ pc' = IF W.err # NoErr THEN "crashed" ELSE "flush"
             /\ idx' = NextFlush(idx) + 1
             /\ flushed' = Append(flushed, [key |-> dkey, body |-> old])
    /\ UNCHANGED <<cfg, disable_remove, run, pageBuf, pipe, todo>>

\* lines 175-178: all_items - added_items.  The content of a draft is read
\* as None or as an object with no fields (the query selects fields of Issue
\* and PullRequest only): the title of None cannot be read.  Nor can the id
\* of a seen item that has none.
StartPrune ==
    /\ pc = "flush" /\ NextFlush(idx) = 0
    /\ disable_remove' \in IF disable_remove = "?" THEN {"true", "false"}
                           ELSE {disable_remove}
    /\ \E content \in {"None", "{}"} :
       \E bad \in {IF DraftKey \in Range(itemKeys) /\ content = "None"
                    THEN "AttributeError"
                    ELSE IF \E key \in seen : items[key].id = NoId THEN "KeyError"
                    ELSE NoErr} :
           /\ err' = bad
           /\ pc' = IF bad # NoErr THEN "crashed" ELSE "prune"
           /\ todo' = IF bad # NoErr THEN {}
                      ELSE {items[key].id : key \in
                              {x \in Range(itemKeys) : items[x].id # NoId /\ x \notin seen}}
    /\ UNCHANGED <<cfg, flushed, rOrder, rFields, rBody, run, pageBuf, itemKeys, items,
                   boards, seen, last, lastFirst, deps, pipe, idx, textSet, calls>>

\* the draft branch of line 180 left out
PruneAnyContent(W, id) ==
    IF disable_remove = "true" THEN W ELSE gh_del_item(W, id)

\* the --disable-remove branch of line 182 left out
PruneAlways(W, id) ==
    IF issue_key(id) = DraftKey THEN Raise(W, "TypeError") ELSE gh_del_item(W, id)

\* lines 180-187: the item of id, whose key is repo; repo[0] of the key of a
\* draft, which is None, cannot be read
prune_one(W, id) ==
    IF issue_key(id) = DraftKey THEN Raise(W, "TypeError")
    ELSE IF disable_remove = "true" THEN W
    ELSE gh_del_item(W, id)

\* lines 179-187: one item of the difference, in the order of the set
PruneItem ==
    /\ pc = "prune"
    /\ \E id \in todo, fuse \in {NoId, 0} :
       \E W \in {prune_one(World(fuse), id)} :
             /\ Store(W)
             /\ pc' = IF W.err # NoErr THEN "crashed" ELSE "prune"
             /\ todo' = todo \ {id}
    /\ UNCHANGED <<cfg, flushed, disable_remove, run, pageBuf, pipe, idx>>

\* line 190
Finish ==
    /\ pc = "prune" /\ todo = {}
    /\ pc' = "done"
    /\ UNCHANGED <<cfg, flushed, disable_remove, rOrder, rFields, rBody, run, pageBuf, itemKeys, items, boards,
                   seen, last, lastFirst, deps, pipe, idx, todo, textSet, calls, err>>

\* the program is run again, on the remote state the run left
NextRun ==
    /\ pc = "done" /\ run < MaxRuns
    /\ run' = run + 1
    /\ pc' = "read"
    /\ pageBuf' = <<>> /\ itemKeys' = <<>>
    /\ items' = [key \in DictKeys |-> NoItem]
    /\ boards' = [b \in {"real", "default"} |-> EmptyBoard]
    /\ seen' = {} /\ last' = [st \in Statuses |-> NoKey] /\ lastFirst' = None
    /\ deps' = [key \in DictKeys |-> NoDeps]
    /\ pipe' = 1 /\ idx' = 0 /\ todo' = {} /\ textSet' = FALSE /\ flushed' = <<>>
    /\ UNCHANGED <<cfg, disable_remove, rOrder, rFields, rBody, calls, err>>

(* ------------------------- the initial states ------------------------- *)
\* a pipeline of the first workspace, "W"
Pipeline(name, issues) == [ws |-> 1, name |-> name, issues |-> issues]
NoList == [k \in Keys |-> <<>>]

Cfg(source, kind, conn, blocked, estimate, field, board_fields) ==
    [source |-> source, kind |-> kind, conn |-> conn, blocked |-> blocked,
     prlinks |-> [k \in Keys |-> {}], estimate |-> estimate,
     priority |-> [k \in Keys |-> None], sprints |-> [k \in Keys |-> <<>>],
     workspaces |-> <<<<87>>>>, workspace |-> <<>>, exclude |-> <<>>,
     field |-> field, board_fields |-> board_fields,
     fields |-> resolve_fields(field, board_fields)]

Lists(n) == SeqsUpTo(Keys, n)
Sources(n, m) == {<<Pipeline(Todo, a), Pipeline(Done, b)>> : a \in Lists(n), b \in Lists(m)}
\* each pipeline lists nothing, the first identity or the last one
Pair == {1, NKeys}
PairSources ==
    {<<Pipeline(Todo, a), Pipeline(Done, b)>> : a, b \in SeqsUpTo(Pair, 1)}
BoardOrders(n) == {o \in SeqsUpTo(ItemIds, n) : Distinct(o)}
Only(k, list) == [j \in Keys |-> IF j = k THEN list ELSE <<>>]
Issues == [k \in Keys |-> "issue"]
NoEstimate == [k \in Keys |-> 0]

\* plain issues of the organisation, the default mapping, a board whose only
\* single-select field is Status
PlainCfgs ==
    {Cfg(s, Issues, NoList, NoList, NoEstimate, <<>>, {StatusField}) :
        s \in Sources(MaxSrcLen, 1)}

\* the same, but the last identity is a pull request connected to issue 1,
\* or in an archived repository, or an issue of another organisation or of
\* this one that is blocked by issue 1
KindCfgs ==
    {Cfg(s, [Issues EXCEPT ![NKeys] = v[1]], Only(NKeys, v[2]), Only(NKeys, v[3]),
         NoEstimate, <<>>, {StatusField}) :
        s \in PairSources,
        v \in {<<"pr", <<1>>, <<>>>>, <<"archived", <<>>, <<>>>>,
                <<"foreign", <<>>, <<1>>>>, <<"issue", <<>>, <<1>>>>}}

\* the pipeline lists the three items A, B, C
ABC == <<1, 2, 3>>
OrderCfgs ==
    {Cfg(<<Pipeline(Todo, ABC), Pipeline(Done, <<>>)>>, Issues, NoList, NoList,
         NoEstimate, <<>>, {StatusField})}

\* "Blocked By" is mapped to "Linked pull requests": issue 1, of the
\* organisation or not, is blocked by the last identity, of the organisation
\* or not, which the item of issue 1 may hold as a linked pull request
LinkCfgs ==
    {[Cfg(s, [Issues EXCEPT ![1] = v[1], ![NKeys] = v[2]], NoList, Only(1, <<NKeys>>),
          NoEstimate, <<Map("Blocked By", "Linked pull requests", "")>>,
          {StatusField, LinkedPRField})
        EXCEPT !.prlinks = [k \in Keys |-> IF k = 1 THEN v[3] ELSE {}]] :
        s \in PairSources,
        v \in {<<"issue", "foreign", {}>>, <<"foreign", "foreign", {}>>,
                <<"issue", "issue", {}>>, <<"issue", "issue", {NKeys}>>}}

\* issue 1 is blocked by the last identity, which is a pull request connected
\* to issue 1, by one connection or by two, and may itself be blocked by
\* issue 1: two documents get lines, one of them from two sources
TextCfgs ==
    {Cfg(s, [Issues EXCEPT ![NKeys] = "pr"], Only(NKeys, c),
         [k \in Keys |-> IF k = 1 THEN <<NKeys>> ELSE IF k = NKeys THEN b ELSE <<>>],
         NoEstimate, <<>>, {StatusField}) :
        s \in PairSources, b \in {<<>>, <<1>>}, c \in {<<1>>, <<1, 1>>}}

\* the user maps "Priority" or "Pipeline" to Status with an exact match:
\* issue 1 has a priority that is the name of no option ("high") or of the
\* option Done, or the first pipeline has the name of the option Todo, the
\* name of no option ("Tod") or the id of the option Done
Tod == <<84, 111, 100>>
ExactCfgs ==
    {[Cfg(s, Issues, NoList, NoList, NoEstimate, <<Map("Priority", "Status", "Exact")>>,
          {StatusField})
        EXCEPT !.priority[1] = v] :
        s \in PairSources, v \in {high, Done}}
    \cup
    {Cfg(<<Pipeline(n, a), Pipeline(Done, b)>>, Issues, NoList, NoList, NoEstimate,
         <<Map("Pipeline", "Status", "Exact")>>, {StatusField}) :
        n \in {Todo, Tod, S2}, a \in SeqsUpTo(Pair, 1), b \in SeqsUpTo(Pair, 1)}

\* the user maps the scalar "Priority" to "Text" and issue 1 has a priority;
\* the pipeline lists issue 1 alone, or after a pull request connected to
\* issue 2, for which a text is built first
ScalarTextCfgs ==
    {[Cfg(<<Pipeline(Todo, a), Pipeline(Done, <<>>)>>, [Issues EXCEPT ![NKeys] = "pr"],
          Only(NKeys, <<2>>), NoList, NoEstimate, <<Map("Priority", "Text", "")>>,
          {StatusField})
        EXCEPT !.priority[1] = high] :
        a \in {<<1>>, <<NKeys, 1>>}}

\* the board has a Size field of three options and issue 1 an estimate
Estimates == {40, 8, 4, 1}
ScaleCfgs ==
    {Cfg(s, Issues, NoList, NoList, [NoEstimate EXCEPT ![1] = e], <<>>,
         {StatusField, SizeField}) :
        s \in PairSources, e \in Estimates}

\* the board has a Priority field, whose options come in one order or the
\* other, and issue 1 a priority
Priorities == {high, normal}
PriorityCfgs ==
    {[Cfg(s, Issues, NoList, NoList, NoEstimate, <<>>, {StatusField, PriorityField(first)})
        EXCEPT !.priority[1] = v] :
        s \in PairSources, first \in {1, 2}, v \in Priorities}

\* the user gives up to two --field entries: a field or "Text" for
\* "Blocked By", no destination for "Priority" ("Priority:") or for
\* "Pipeline", a destination that is no field of the board for "Position",
\* a destination for "Workspace", which has no default
UserMaps ==
    {Map("Blocked By", "Status", "Exact"), Map("Blocked By", "Text", ""),
     Map("Priority", "", ""), Map("Workspace", "Size", ""),
     Map("Pipeline", "", ""), Map("Position", "Nope", "")}
MapCfgs ==
    {Cfg(<<Pipeline(Todo, <<1>>), Pipeline(Done, <<>>)>>, Issues, NoList, NoList,
         NoEstimate, f, {StatusField, SizeField}) :
        f \in SeqsUpTo(UserMaps, 2)}

\* the board has an Iteration field and issue 1 is in one sprint or in two
Sprint1 == <<83, 112, 49>>
Sprint2 == <<83, 112, 50>>
SprintCfgs ==
    {[Cfg(s, Issues, NoList, NoList, NoEstimate, <<>>, {StatusField, IterationField})
        EXCEPT !.sprints[1] = v] :
        s \in PairSources, v \in {<<Sprint1>>, <<Sprint1, Sprint2>>}}

\* ZenHub has the workspaces "Pub", with the pipelines Todo and Done, and
\* "Priv", with the pipeline Todo; the user asks for all workspaces, for
\* "Priv", for "Pri" or for "Pub" and "Pri", and excludes nothing, the
\* workspaces "Priv*", the pipelines "Do?e" or both
Pub == <<80, 117, 98>>
Priv == <<80, 114, 105, 118>>
Pri == <<80, 114, 105>>
PrivStar == <<80, 114, 105, 118, 42>>
DoAnyE == <<68, 111, 63, 101>>
Excludes ==
    {<<>>, <<[f |-> "Workspace", pat |-> PrivStar]>>, <<[f |-> "Pipeline", pat |-> DoAnyE]>>,
     <<[f |-> "Workspace", pat |-> PrivStar], [f |-> "Pipeline", pat |-> DoAnyE]>>}
ExclCfgs ==
    {[Cfg(<<[ws |-> 1, name |-> Todo, issues |-> <<1>>],
            [ws |-> 1, name |-> Done, issues |-> <<2>>],
            [ws |-> 2, name |-> Todo, issues |-> <<NKeys>>]>>,
          Issues, NoList, NoList, NoEstimate, <<>>, {StatusField})
        EXCEPT !.workspaces = <<Pub, Priv>>, !.workspace = w, !.exclude = x] :
        w \in {<<>>, <<Priv>>, <<Pri>>, <<Pub, Pri>>}, x \in Excludes}

\* The identities of a plain world are interchangeable: one world of each
\* class is kept, the one that names them 1, 2, ... in order of appearance
RECURSIVE Canonical(_, _)
Canonical(s, top) ==
    \/ s = <<>>
    \/ /\ Head(s) \notin Keys \/ Head(s) <= top + 1
       /\ Canonical(Tail(s), IF Head(s) \in Keys /\ Head(s) > top THEN Head(s) ELSE top)

InitRun ==
    /\ run = 1 /\ pc = "read" /\ disable_remove = "?"
    /\ pageBuf = <<>> /\ itemKeys = <<>>
    /\ items = [key \in DictKeys |-> NoItem]
    /\ boards = [b \in {"real", "default"} |-> EmptyBoard]
    /\ seen = {} /\ last = [st \in Statuses |-> NoKey] /\ lastFirst = None
    /\ deps = [key \in DictKeys |-> NoDeps]
    /\ pipe = 1 /\ idx = 0 /\ todo = {} /\ textSet = FALSE /\ flushed = <<>>
    /\ calls = <<>> /\ err = NoErr
    /\ rBody = [k \in Keys |-> Unread]

\* the board before the first run: at most n items in POSITION order, each
\* with a Status or none
InitRemote(n) ==
    \E o \in BoardOrders(n) : \E st \in [DOMAIN o -> Statuses \cup {None}] :
        /\ rOrder = o
        /\ rFields = [i \in ItemIds |->
                        IF i \in Range(o)
                        THEN [NoFv EXCEPT !["Status"] = st[IndexOf(o, i)]]
                        ELSE NoFv]

Init ==
    /\ InitRun
    /\ \/ /\ InitRemote(MaxBoard)
          /\ cfg \in PlainCfgs
          /\ Canonical(rOrder \o cfg.source[1].issues \o cfg.source[2].issues, 0)
       \/ /\ InitRemote(1)
          /\ Range(rOrder) \subseteq Pair
          /\ cfg \in KindCfgs \cup LinkCfgs \cup TextCfgs \cup ScaleCfgs \cup PriorityCfgs
                    \cup SprintCfgs \cup ExactCfgs \cup ScalarTextCfgs
       \/ /\ InitRemote(MaxBoard)
          /\ cfg \in OrderCfgs
       \/ /\ InitRemote(0)
          /\ cfg \in MapCfgs
       \/ /\ InitRemote(1)
          /\ cfg \in ExclCfgs
       \/ /\ InitRemote(2)
          /\ rOrder \in {<<NKeys, DraftId>>, <<DraftId, NKeys>>}
          /\ cfg \in KindCfgs
          /\ cfg.kind[NKeys] \in {"pr", "archived"}

Next ==
    \/ ReadPage \/ ReadFails \/ InitBoard \/ StartPipeline \/ SyncItem \/ EndSync
    \/ Flush \/ StartPrune \/ PruneItem \/ Finish \/ NextRun

Spec == Init /\ [][Next]_vars

(* ------------------------------ properties ----------------------------- *)
\* the calls of run r, as a set of positions of the log
CallsIn(r) == {i \in DOMAIN calls : calls[i].run = r}
CallsOf(r, op) == {i \in CallsIn(r) : calls[i].op = op}
\* the sync phase of the run is over: every pipeline was merged
Merged == pipe > Len(Selected)

\* C1 (idempotence): a run that follows a completed run, on the board the
\* first run left and with the same source state and options, issues no
\* remote mutation call at all (add, delete, set, clear, position, body).
C1_SecondRunSilent == \A r \in 2..MaxRuns : CallsIn(r) = {}

\* C2 (one target item per identity): in one run at most one add-item call
\* is issued for an identity, however often the pipelines list it.
C2_OneAddPerIdentity ==
    \A r \in 1..MaxRuns : \A i, j \in CallsOf(r, "add") :
        calls[i].id = calls[j].id => i = j

\* the places of the source that list identity k
Listings(k) ==
    UNION {{<<p, i>> : i \in {n \in DOMAIN cfg.source[p].issues :
                                  cfg.source[p].issues[n] = k}} :
           p \in DOMAIN cfg.source}

\* a run ended that added an identity the source lists more than once
C2_ListedTwiceAddedOnce ==
    /\ pc = "done"
    /\ \E i \in CallsOf(run, "add") : Cardinality(Listings(calls[i].id)) > 1

\* a is before b in the column
Before(a, b, col) ==
    /\ a \in Range(col) /\ b \in Range(col)
    /\ IndexOf(col, a) < IndexOf(col, b)

\* C3 (position convergence): whatever the board held, the run is not ended
\* by an exception of the position cache; when it is done, the items a
\* pipeline lists (each listed once in the source) stand in the pipeline's
\* status column in the order of the listing; and a second run issues no
\* set-position call.
C3_PositionConverges ==
    /\ err \notin {"StopIteration", "ValueError", "KeyError"}
    /\ pc = "done" =>
          \A p \in DOMAIN Selected : \A i, j \in DOMAIN Selected[p].issues :
              LET a == Selected[p].issues[i]
                  b == Selected[p].issues[j]
              IN  ( /\ i < j
                    /\ Cardinality(Listings(a)) = 1 /\ Cardinality(Listings(b)) = 1
                    /\ cfg.kind[a] \in {"issue", "foreign"}
                    /\ cfg.kind[b] \in {"issue", "foreign"} )
                  => Before(a, b, RemoteColumn(rOrder, rFields, StatusOf(Selected[p].name)))
    /\ \A r \in 2..MaxRuns : CallsOf(r, "pos") = {}

\* the delete-item calls of run r for the item of id
Deletes(r, id) == {i \in CallsOf(r, "delete") : calls[i].id = id}

\* C4 (pruner result): delete-item is never called for an item that is
\* marked seen or was created in this run; and with removal enabled, when
\* every workspace was processed and the run has ended (not by a failed
\* remote call), delete-item was called exactly once for each item read from
\* the board that has linkable content and is not marked seen.
C4_PrunerResult ==
    /\ \A i \in CallsOf(run, "delete") :
          calls[i].id \in Range(pageBuf) /\ issue_key(calls[i].id) \notin seen
    /\ ( /\ disable_remove = "false" /\ Merged
          /\ pc \in {"done", "crashed"} /\ err # "TransportError" )
       => \A id \in Range(pageBuf) :
              (issue_key(id) # DraftKey /\ issue_key(id) \notin seen)
              => Cardinality(Deletes(run, id)) = 1

\* C5 (pruning exclusion): a draft item is never passed to delete-item, in
\* any run, seen or not, with removal enabled or disabled.
C5_DraftNeverDeleted ==
    \A i \in DOMAIN calls : calls[i].op = "delete" => calls[i].id # DraftId

\* with removal enabled, the prune phase came to the draft read from the board
C5_PruneReachedDraft ==
    /\ DraftId \in Range(pageBuf) /\ DraftKey \notin seen
    /\ disable_remove = "false"
    /\ pc = "crashed" /\ err = "TypeError"

\* C6 (remove suppression): with --disable-remove set no delete-item call is
\* issued, whatever the board and the source hold.
C6_NoDeleteWhenDisabled ==
    disable_remove = "true" => \A i \in DOMAIN calls : calls[i].op # "delete"

\* with --disable-remove set a run ended and left an unseen item on the board
C6_UnseenItemKept ==
    /\ disable_remove = "true" /\ pc = "done"
    /\ \E id \in Range(pageBuf) :
          /\ issue_key(id) # DraftKey /\ issue_key(id) \notin seen
          /\ id \in Range(rOrder)

\* C7 (per-item failure is not fatal): a remote mutation call that fails
\* while an item of a pipeline is processed does not end the run.
C7_ItemFailureNotFatal ==
    ~(pc = "crashed" /\ err = "TransportError" /\ ~Merged /\ idx > 0)

\* the item being processed, or the one whose processing ended the run
Current == Selected[pipe].issues[idx]
LinkMapped == \E i \in DOMAIN cfg.field : cfg.field[i].tgt = "Linked pull requests"

\* C8 (cross-org guard for linked PRs): with a list-valued source mapped to
\* "Linked pull requests", a sub-reference of another owner than the board's
\* gets no update-body call, and no other call either unless a pipeline
\* lists it as an item of its own; and the item that refers to it is
\* processed without an error.
C8_CrossOrgLinkedPR ==
    \A k \in Keys : \A n \in DOMAIN cfg.blocked[k] :
        LET sub == cfg.blocked[k][n]
        IN  (LinkMapped /\ Owner(sub) # BoardOwner) =>
            /\ \A i \in DOMAIN calls :
                  calls[i].id = sub => calls[i].op # "body" /\ Listings(sub) # {}
            /\ ~( /\ pc = "crashed" /\ err # "TransportError"
                  /\ ~Merged /\ idx > 0 /\ Current = k )

\* C9 (cross-org documents are never written): no update-body call is issued
\* for a document of another owner than the board's.
C9_CrossOrgNeverWritten ==
    \A i \in DOMAIN calls : calls[i].op = "body" => Owner(calls[i].id) = BoardOwner

\* C10 (scale conversion boundary): for an item with an estimate on the scale
\* 40..1 and a Size field of three options, the scale conversion set_field
\* applies maps 40 to the first option and 1 to the last option.
C10_ScaleBoundary ==
    \A k \in seen \cap Keys : \A zv \in {zh_value(k, "Estimate", None)} :
        \A to \in {convert(SizeField, zv[1], "scale", zv[2])} :
            SizeField \in cfg.board_fields =>
            /\ zv[1] = 40 => to = <<NoErr, SizeField.options[1].id>>
            /\ zv[1] = 1 => to = <<NoErr, SizeField.options[Len(SizeField.options)].id>>

\* the options of the board's Priority field, in the order of the board
PriorityOf(board_fields) == all_fields(board_fields, "Priority")

\* C11 (closest match determinism): for the source value "high" and the
\* destination options "Normal" and "High Priority", in either order, the
\* Closest conversion of set_field selects "High Priority" for every item it
\* is applied to, and every value written to the Priority field of an item
\* whose priority is "high" is the id of that option.
C11_ClosestIsHighPriority ==
    /\ \A k \in seen \cap Keys : \A zv \in {zh_value(k, "Priority", None)} :
          (zv[1] = high /\ PriorityOf(cfg.board_fields) # NoField)
          => convert(PriorityOf(cfg.board_fields), zv[1], "closest", zv[2]) = <<NoErr, P2>>
    /\ \A i \in DOMAIN calls :
          (calls[i].field = "Priority" /\ cfg.priority[calls[i].id] = high)
          => calls[i].op = "set" /\ calls[i].val = P2

\* the Priority of an item whose priority is "high" was written on a board
\* that lists "Normal" first
C11_HighWrittenNormalFirst ==
    /\ PriorityField(1) \in cfg.board_fields
    /\ \E i \in DOMAIN calls :
          calls[i].field = "Priority" /\ cfg.priority[calls[i].id] = high

\* a pull request that ZenHub connects to at least one issue
LinkedPR(k) == IsPR(k) /\ cfg.conn[k] # <<>>

\* C12 (linked-PR suppression): a source item that is a pull request with at
\* least one connected issue never causes an add-item call and is never the
\* target of a set-field-value, clear-field-value or set-position call; it
\* is not marked seen and is not the predecessor ("last") of a later item.
C12_LinkedPRSuppressed ==
    \A k \in Keys : LinkedPR(k) =>
        /\ \A i \in DOMAIN calls :
              calls[i].id = k => calls[i].op \notin {"add", "set", "clear", "pos"}
        /\ k \notin seen
        /\ \A st \in Statuses : last[st] # k

\* a run ended in which a pipeline listed such a pull request and its
\* relationship text was aggregated
C12_LinkedPRTextOnly ==
    /\ pc = "done"
    /\ \E k \in Keys :
          /\ LinkedPR(k) /\ Listings(k) # {}
          /\ \E n \in DOMAIN deps[k].secs : deps[k].secs[n].lines # <<>>

\* C13 (archived skip): for a source item of an archived repository the run
\* issues no add-item, field, position or body call, aggregates no text for
\* it and does not mark it seen; its processing raises no error and the run
\* goes on with the next source item.
C13_ArchivedSkipped ==
    \A k \in Keys : cfg.kind[k] = "archived" =>
        /\ \A i \in DOMAIN calls :
              calls[i].id = k => calls[i].op \notin {"add", "set", "clear", "pos", "body"}
        /\ ~deps[k].has /\ ~deps[UrlKey(k)].has
        /\ k \notin seen
        /\ ~(pc = "crashed" /\ ~Merged /\ idx > 0 /\ Current = k)

\* the first pipeline listed an item of an archived repository, and the run
\* went on to the item of the second pipeline and ended
C13_ArchivedThenNext ==
    /\ pc = "done"
    /\ \E k \in Range(cfg.source[1].issues) : cfg.kind[k] = "archived"
    /\ \E j \in Range(cfg.source[2].issues) : j \in seen

\* the body the flush is to compute for old_body: everything before the
\* heading marker, the rendered region, and the trailing content from the
\* next top-level heading after the marker on
Preserved(old, secs) ==
    LET m == FirstWhere(old, LAMBDA t : t = MARK)
        after == IF m = 0 THEN <<>> ELSE SubSeq(old, m + 1, Len(old))
        h == FirstWhere(after, HasLfHash)
    IN  (IF m = 0 THEN old ELSE SubSeq(old, 1, m - 1))
        \o (IF RenderSecs(secs) # <<>> THEN <<MARK>> \o RenderSecs(secs) ELSE <<>>)
        \o (IF h = 0 THEN <<>> ELSE SubSeq(after, h, Len(after)))

\* C14 (flush preserves user content): for every body the flush read of a
\* document of the board's owner, the body set_text computes is the text
\* before the Dependencies marker, then the newly rendered region, then the
\* trailing content from the next top-level heading on; and an update-body
\* call is issued for a document only if the computed body differs from the
\* body read.
C14_FlushPreservesContent ==
    /\ \A n \in DOMAIN flushed :
          Owner(Ident(flushed[n].key)) = BoardOwner =>
          new_body(flushed[n].body, deps[flushed[n].key].secs)
              = Preserved(flushed[n].body, deps[flushed[n].key].secs)
    /\ \A i \in CallsOf(run, "body") : \E n \in DOMAIN flushed :
          /\ Ident(flushed[n].key) = calls[i].id
          /\ new_body(flushed[n].body, deps[flushed[n].key].secs) # flushed[n].body

\* the entries of a list of mappings for one source field, in order
Entries(mappings, src) == SelectSeq(mappings, LAMBDA m : m.src = src)
\* the destinations the table is to hold for a source field: those of the
\* user's entries if there are any, else those of the default entries
Destinations(src) ==
    LET e == IF Entries(cfg.field, src) # <<>> THEN Entries(cfg.field, src)
             ELSE Entries(default_mapping, src)
    IN  [i \in DOMAIN e |->
            [field |-> all_fields(cfg.board_fields, e[i].tgt), conv |-> e[i].conv]]
MappedSources == {m.src : m \in Range(default_mapping) \cup Range(cfg.field)}

\* C15 (mapping layering): the resolved table has one row for each source
\* field of the default and the user's entries; the row of a source the user
\* names holds exactly the destinations of the user's entries for it, in
\* order, and the row of any other source exactly its default destinations.
C15_MappingLayered ==
    /\ {cfg.fields[i].src : i \in DOMAIN cfg.fields} = MappedSources
    /\ \A i, j \in DOMAIN cfg.fields : cfg.fields[i].src = cfg.fields[j].src => i = j
    /\ \A i \in DOMAIN cfg.fields : cfg.fields[i].dsts = Destinations(cfg.fields[i].src)

\* a run used a table in which two entries of the user replace the default
\* destination of a source field
C15_UserFanOut ==
    /\ pc = "done"
    /\ \E src \in MappedSources :
          Len(Entries(cfg.field, src)) = 2 /\ Entries(default_mapping, src) # <<>>

\* C16 (default Sprint transfer): with the default mapping and an Iteration
\* field on the board, an item that is in at least one sprint gets a value
\* for the source field "Sprint", and once the pipelines are merged its
\* Iteration field on the board holds a value.
C16_SprintTransferred ==
    \A k \in seen \cap Keys :
        (cfg.field = <<>> /\ IterationField \in cfg.board_fields /\ cfg.sprints[k] # <<>>)
        => /\ zh_value(k, "Sprint", None)[1] # None
           /\ (Merged /\ err = NoErr) => rFields[k]["Iteration"] # None

\* the pipeline at place p of the source matches a "Pipeline" exclusion, or
\* its workspace a "Workspace" exclusion
ExcludedPlace(p) ==
    \/ excluded("Pipeline", cfg.source[p].name)
    \/ excluded("Workspace", cfg.workspaces[cfg.source[p].ws])
\* identity k is listed, in excluded places only, and no other item refers
\* to it
OnlyExcluded(k) ==
    /\ Listings(k) # {}
    /\ \A l \in Listings(k) : ExcludedPlace(l[1])
    /\ \A j \in Keys : k \notin Range(cfg.blocked[j]) \cup Range(cfg.conn[j])

\* C17 (exclusion patterns): an item that the source lists only in pipelines
\* that match a "Pipeline" exclusion or in workspaces whose name matches a
\* "Workspace" exclusion is not created on the board, gets no field or
\* position call and no aggregated text, and is not marked seen.
C17_ExcludedUntouched ==
    \A k \in Keys : OnlyExcluded(k) =>
        /\ \A i \in CallsIn(run) :
              calls[i].id = k => calls[i].op \notin {"add", "set", "clear", "pos"}
        /\ ~deps[k].has
        /\ k \notin seen

\* the number of places of the shared board cache that hold the item id
Places(id) ==
    Cardinality({<<st, n>> \in (Statuses \cup {None}) \X (1..Len(rOrder)) :
                    n \in DOMAIN boards["real"][st] /\ boards["real"][st][n] = id})

\* C18 (board cache tracks the remote board): while the pipelines are merged
\* and the text is flushed, every item that has an id, read from the board
\* or created in this run, is exactly once in the one shared board cache,
\* in the column of its current status; each cached column has the order of
\* the remote column; and no lookup of the position cache fails.
C18_CacheTracksRemote ==
    /\ pc \in {"sync", "flush"} =>
          /\ \A key \in Range(itemKeys) : items[key].id # NoId =>
                /\ items[key].brd = "real"
                /\ Places(items[key].id) = 1
                /\ items[key].id \in Range(boards["real"][items[key].col])
                /\ items[key].col = rFields[items[key].id]["Status"]
          /\ \A st \in Statuses \cup {None} :
                boards["real"][st] = RemoteColumn(rOrder, rFields, st)
    /\ ~(pc = "crashed" /\ ~Merged /\ err \in {"StopIteration", "ValueError"})

\* add_text accepted at least one line for the content object of dict key dkey
Accepted(dkey) == \E i \in DOMAIN deps[dkey].secs : deps[dkey].secs[i].lines # <<>>
BodyCalls == {n \in DOMAIN calls : calls[n].op = "body" /\ calls[n].run = run}

Earlier(p, i, q, j) == p < q \/ (p = q /\ i < j)

\* C20 (duplicate guard): when the item loop reaches an identity that is
\* already marked seen in this run, that occurrence issues no remote call,
\* aggregates no text, leaves seen and the "last" predecessor of every status
\* as they were, raises nothing, and the loop goes on to the next item.
C20_DuplicateSkipped ==
    [][(pc = "sync" /\ idx > 0 /\ Current \in seen) =>
          /\ calls' = calls /\ deps' = deps /\ textSet' = textSet
          /\ last' = last /\ seen' = seen
          /\ rOrder' = rOrder /\ rFields' = rFields /\ boards' = boards
          /\ err' = NoErr /\ pc' = "sync"
          /\ <<pipe', idx'>> = IF idx < Len(Selected[pipe].issues)
                                THEN <<pipe, idx + 1>> ELSE <<pipe + 1, 0>>]_vars

\* the loop is past the second occurrence of an identity whose first
\* occurrence, in a pipeline of another status, had its Status set
C20_PastSecondOccurrence ==
    /\ pc = "sync" /\ err = NoErr
    /\ \E p, q \in DOMAIN Selected :
          \E i \in DOMAIN Selected[p].issues, j \in DOMAIN Selected[q].issues :
             /\ Earlier(p, i, q, j) /\ Earlier(q, j, pipe, IF idx = 0 THEN 1 ELSE idx)
             /\ Selected[p].issues[i] = Selected[q].issues[j]
             /\ Selected[p].name # Selected[q].name
             /\ Selected[q].issues[j] \in seen
             /\ \E n \in DOMAIN calls :
                   /\ calls[n].run = run /\ calls[n].op = "set"
                   /\ calls[n].field = "Status"
                   /\ calls[n].id = items[Selected[q].issues[j]].id

\* the Status writes (set or clear) of this run for the item id, and the
\* latest of a set of calls
StatusWrites(id) ==
    {n \in CallsIn(run) : /\ calls[n].id = id /\ calls[n].field = "Status"
                          /\ calls[n].op \in {"set", "clear"}}
Latest(S) == CHOOSE n \in S : \A m \in S : m <= n

\* C21 (Status write moves the cached item): an item whose Status was
\* written in this run (set to an option, or cleared) is in the cached list
\* of the status written last, on the board cache the item belongs to, and
\* in the list of no other status; and a set_field call that sets another
\* Status puts the item at the tail of the new status's list.
C21_StatusWriteMovesCache ==
    \A key \in Range(itemKeys) :
        (items[key].id # NoId /\ items[key].brd # "none") =>
            /\ StatusWrites(items[key].id) # {} =>
                  \A v \in {calls[Latest(StatusWrites(items[key].id))].val} :
                      /\ items[key].id \in Range(boards[items[key].brd][v])
                      /\ \A st \in (Statuses \cup {None}) \ {v} :
                            items[key].id \notin Range(boards[items[key].brd][st])
            /\ pc = "sync" =>
                  \A v \in Statuses \ {field_value(World(NoId), key, "Status")} :
                     \A W \in {set_field(World(NoId), key, StatusField, v, "exact", <<>>)} :
                        /\ W.err = NoErr
                        /\ W.items[key].col = v
                        /\ W.boards[items[key].brd][v] # <<>>
                        /\ W.boards[items[key].brd][v][Len(W.boards[items[key].brd][v])]
                              = items[key].id
                        /\ \A st \in (Statuses \cup {None}) \ {v} :
                              items[key].id \notin Range(W.boards[items[key].brd][st])

\* C22 (full drain before reconciliation): while the board is read no remote
\* mutation is issued and no source item is processed; the read loop stops
\* only after the page that reports no next page, with every item of the
\* board read in order; the position cache and the identity table are then
\* built from all of them; and a failed page read ends the run with no
\* mutation issued.
C22_FullDrain ==
    /\ [](pc = "read" => CallsIn(run) = {} /\ seen = {} /\ itemKeys = <<>>)
    /\ [](pc = "board" => pageBuf = rOrder /\ CallsIn(run) = {})
    /\ [][pc = "board" =>
            /\ boards'["real"] = [st \in Statuses \cup {None} |->
                                      RemoteColumn(rOrder, rFields, st)]
            /\ itemKeys' = KeysOf(rOrder)
            /\ \A n \in DOMAIN rOrder :
                  /\ items'[issue_key(rOrder[n])].id \in Range(rOrder)
                  /\ issue_key(items'[issue_key(rOrder[n])].id) = issue_key(rOrder[n])
            /\ calls' = calls]_vars
    /\ [][pc = "read" /\ pc' # "read" /\ pc' # "board" =>
            pc' = "crashed" /\ err' # NoErr /\ calls' = calls]_vars
    /\ [][pc = "crashed" => UNCHANGED vars]_vars

\* a board of more than one page was read to the end and merged
C22_SeveralPagesRead ==
    /\ pc = "sync" /\ Len(pageBuf) > PageSize /\ pageBuf = rOrder
    /\ Cardinality(Range(itemKeys)) > PageSize

\* round(i / n * m) clamped to 0..m-1
Clamped(i, n, m) == IF round(i * m, n) > m - 1 THEN m - 1 ELSE round(i * m, n)

\* C23 (scale stays in range): for every item with an estimate that the
\* Scale conversion is applied to, on a board with a Size field, set_field
\* selects the Size option at index round(i / n * m) clamped to 0..m-1, i
\* being the index of the estimate in its source domain of length n and m
\* the number of options; the run never ends with an IndexError.
C23_ScaleInRange ==
    /\ \A k \in seen \cap Keys : \A zv \in {zh_value(k, "Estimate", None)} :
          (SizeField \in cfg.board_fields /\ zv[1] # 0) =>
             \A to \in {convert(SizeField, zv[1], "scale", zv[2])} :
                /\ to[1] = NoErr
                /\ to[2] \in OptionIds(SizeField)
                /\ to[2] = SizeField.options[Clamped(IndexOf(zv[2], zv[1]) - 1, Len(zv[2]),
                                                     Len(SizeField.options)) + 1].id
    /\ err # "IndexError"

\* the option an exact match resolves value to: the option of that id or of
\* that name, else None
ExactTarget(field, value) ==
    IF value \in OptionIds(field) THEN value
    ELSE IF value \in Range(OptionNames(field))
    THEN field.options[IndexOf(OptionNames(field), value)].id
    ELSE None
\* the first of the selected pipelines that lists identity k
FirstPlace(k) ==
    CHOOSE p \in DOMAIN Selected :
        /\ k \in Range(Selected[p].issues)
        /\ \A q \in 1..(p - 1) : k \notin Range(Selected[q].issues)

\* C24 (exact conversion): with "Pipeline:Status:Exact", the only writer of
\* Status, the value set_field resolves for an item is the option whose id or
\* name is the name of the first pipeline that lists it, else None: every
\* Status call of the run is the one call that value asks for, a set of that
\* option or, for None, a clear; no call is issued when the item holds that
\* value already or, for None, holds none; and None never sets an option.
C24_ExactConversion ==
    (cfg.field = <<Map("Pipeline", "Status", "Exact")>>) =>
        \A k \in seen :
            \A t \in {ExactTarget(StatusField, Selected[FirstPlace(k)].name)} :
            \A cs \in {StatusWrites(items[k].id)} :
                /\ Cardinality(cs) <= 1
                /\ \A n \in cs :
                      /\ field_value(World(NoId), k, "Status") # t
                      /\ calls[n].op = IF t = None THEN "clear" ELSE "set"
                      /\ calls[n].val = t
                /\ (err = NoErr /\ field_value(World(NoId), k, "Status") # t) => cs # {}

\* the run is done; an item that held a Status had it cleared, for a pipeline
\* whose name is no option, and an item of the pipeline Done had Done set
C24_ClearedAndSet ==
    /\ cfg.field = <<Map("Pipeline", "Status", "Exact")>>
    /\ pc = "done" /\ run = 1
    /\ \E n \in CallsIn(run) : calls[n].op = "clear" /\ calls[n].field = "Status"
    /\ \E n \in CallsIn(run) :
          calls[n].op = "set" /\ calls[n].field = "Status" /\ calls[n].val = S2

\* the checklist lines of the texts of one section, a text for a list of
\* sub-references having one line per sub-reference
RECURSIVE LinesOf(_)
LinesOf(texts) ==
    IF texts = <<>> THEN <<>>
    ELSE [i \in DOMAIN Head(texts)[2] |-> <<Head(texts)[1], Head(texts)[2][i]>>]
         \o LinesOf(Tail(texts))

\* C25 (no duplicate checklist line): in every state of a run, no checklist
\* line occurs more than once under one relationship title of one document,
\* and no title occurs twice in a document.
C25_NoDuplicateLine ==
    \A dkey \in DictKeys :
        /\ \A i, j \in DOMAIN deps[dkey].secs :
              deps[dkey].secs[i].title = deps[dkey].secs[j].title => i = j
        /\ \A i \in DOMAIN deps[dkey].secs : Distinct(LinesOf(deps[dkey].secs[i].lines))

\* the mapping table has a destination that resolved to None
Suppressed ==
    \E r \in DOMAIN cfg.fields : \E d \in DOMAIN cfg.fields[r].dsts :
        cfg.fields[r].dsts[d].field = NoField
\* some entry of the mapping table has the field of that name as destination
Mapped(fname) ==
    \E r \in DOMAIN cfg.fields : \E d \in DOMAIN cfg.fields[r].dsts :
        cfg.fields[r].dsts[d].field.name = fname

\* C26 (suppressed or unknown destinations are skipped): when a mapping has
\* the empty string or a name that is no field of the board as destination,
\* for whatever source field, merging the pipelines is not ended by the
\* TypeError of using a destination that is None, and every field write or
\* move of the run is driven by a mapping entry that has that field as
\* destination.
C26_SuppressedSkipped ==
    Suppressed =>
        /\ ~(err = "TypeError" /\ ~Merged)
        /\ \A n \in DOMAIN calls :
              /\ calls[n].op \in {"set", "clear"} => Mapped(calls[n].field)
              /\ calls[n].op = "pos" => Mapped("Position")

\* the scalar sources that have "Text" as a destination
ScalarToText ==
    {cfg.fields[r].src : r \in {x \in DOMAIN cfg.fields :
        /\ cfg.fields[x].src \in {"Estimate", "Priority"}
        /\ \E d \in DOMAIN cfg.fields[x].dsts : cfg.fields[x].dsts[d].field = TEXT}}

\* C27 (scalar source to Text): when a scalar source field is mapped to
\* "Text" and an item that was processed has a value for it, the run is not
\* ended by an error of building the line, and the item's own document has,
\* under the title of the source field, exactly one line.
C27_ScalarLineAdded ==
    \A src \in ScalarToText :
        /\ err # "UnboundLocalError"
        /\ \A k \in seen \cap Keys :
              (err = NoErr /\ ~Falsy(src, zh_value(k, src, None)[1])) =>
                 \E i \in DOMAIN deps[k].secs :
                    /\ deps[k].secs[i].title = src
                    /\ Len(deps[k].secs[i].lines) = 1

\* the document of dict key dkey has a line under "Linked Issues"
HasFixesLine(dkey) ==
    \E i \in DOMAIN deps[dkey].secs :
        deps[dkey].secs[i].title = "Linked Issues" /\ deps[dkey].secs[i].lines # <<>>

\* C28 (linked pull requests destination): with "Blocked By" mapped to
\* "Linked pull requests", for an item of the board's organisation that was
\* processed and a sub-reference of that organisation: if the item does not
\* hold it as a linked pull request, no NameError ends the run and, the
\* item processed, the document of the sub-reference has a line under
\* "Linked Issues"; if it is linked already, its document gets no text.
C28_FixesLineAggregated ==
    LinkMapped =>
        \A k \in seen \cap Keys : \A n \in DOMAIN cfg.blocked[k] :
            \A sub \in {cfg.blocked[k][n]} :
                (Owner(k) = BoardOwner /\ Owner(sub) = BoardOwner) =>
                    IF sub \in cfg.prlinks[k]
                    THEN ~deps[sub].has /\ ~deps[UrlKey(sub)].has
                    ELSE /\ err # "NameError"
                         /\ err = NoErr => HasFixesLine(sub) \/ HasFixesLine(UrlKey(sub))

\* identity k is skipped in every occurrence: its repository is archived, it
\* is a pull request linked to an issue, or it is listed in excluded places
\* only
SkippedEverywhere(k) ==
    cfg.kind[k] = "archived" \/ LinkedPR(k) \/ OnlyExcluded(k)

\* C29 (skipped items are pruned): an item that is already on the board and
\* whose source item is skipped in every occurrence is never marked seen; and
\* with removal enabled, when every workspace was processed and the run has
\* ended (not by a failed remote call), delete-item was called for it.
C29_SkippedPruned ==
    \A id \in Range(pageBuf) : \A k \in {issue_key(id)} :
        (k # DraftKey /\ Listings(k) # {} /\ SkippedEverywhere(k)) =>
            /\ k \notin seen
            /\ ( /\ disable_remove = "false" /\ Merged
                  /\ pc \in {"done", "crashed"} /\ err # "TransportError" )
               => Deletes(run, id) # {}

\* C30 (draft items do not stop the run): on a board that holds a draft item,
\* the prune phase raises no error of its own, and when the run has ended
\* every unseen item with linkable content was removed by one delete-item
\* call, or left in place when removal is disabled.
C30_DraftsDoNotStopRun ==
    (DraftId \in Range(pageBuf) /\ Merged) =>
        /\ ~(pc = "crashed" /\ err \in {"AttributeError", "TypeError"})
        /\ pc = "done" =>
              \A id \in Range(pageBuf) :
                  (issue_key(id) # DraftKey /\ issue_key(id) \notin seen) =>
                      Cardinality(Deletes(run, id)) =
                          IF disable_remove = "false" THEN 1 ELSE 0

====
